---- MODULE Spec2Model ----
(***************************************************************************)
(* HashTable of src/p2.cpp: a fixed-capacity open-addressing table         *)
(* (string key -> int value) with linear probing, tombstone deletion and   *)
(* a deque of inserted keys behind get_first / get_last.                   *)
(*                                                                         *)
(* Strings are sequences of character codes; 0 is the NUL character.       *)
(* Indices into buffer_ are 0-based as in the code; std::nullopt of an     *)
(* optional<size_t> is nullopt (-1).                                       *)
(***************************************************************************)
EXTENDS Integers, Sequences, FiniteSets, TLC

(* ------------------------------ bounds --------------------------------- *)

\* dictionary_size handed to the constructor (the code's default is kWordCount).
DictSize == 1

\* Cap on the length of the deque inserts_, which the code lets grow freely.
MaxLog == 3

\* Cap on the number of successful inserts in the runs of SpecHist.
MaxPushes == 3

(* ------------------------- program constants --------------------------- *)

kScalingFactor == 2

kMaxWordLength == 17

getBufferSize(dictionary_size) == dictionary_size * kScalingFactor

size_ == getBufferSize(DictSize)

nullopt == -1

(* ------------------------------ inputs --------------------------------- *)

\* Keys of the key domain: NUL-free, at most kMaxWordLength characters.
Keys == {<<1>>, <<2>>, <<1, 2>>}

\* Keys longer than the key field of an Entry can hold.
LongKeys == {[i \in 1..(kMaxWordLength + 1) |-> 1]}

Values == {1, 2}

\* Results of the injected hash function, before the reduction modulo size_.
HashValues == {1, 2}

\* The hash functions tried: every assignment of hash values to the keys of the
\* key domain, among them the constant one of the tests (every key -> 1).
HashFunctions ==
    {[k \in Keys \cup LongKeys |-> IF k \in Keys THEN f[k] ELSE 1] : f \in [Keys -> HashValues]}

\* What a read through a dangling string_view may produce besides the string
\* that was there: other bytes, here the empty view.
Views == {<<>>}

(* ------------------------------- state --------------------------------- *)

VARIABLES
    buffer_,          \* std::vector<Entry>, indexed 0..size_-1
    inserts_,         \* std::deque<std::string>
    hash_function_,   \* the injected HashFunction
    last,             \* the most recent call: its arguments and what it returned
    order,            \* history: the live (key, value) pairs by their latest successful insert
    seen,             \* history, kept by SpecOnce: the keys some insert has succeeded for
    twin,             \* history, kept by SpecHist: the key of every successful insert, in order
    discards,         \* history, kept by SpecHist: the pop_front / pop_back calls so far
    ub                \* TRUE once a call has had undefined behaviour

vars == <<buffer_, inserts_, hash_function_, last, order, seen, twin, discards, ub>>

\* A value-initialised Entry: key all NUL, tombstone = occupied = false.
Entry0 == [key |-> <<>>, tombstone |-> FALSE, occupied |-> FALSE, value |-> 0]

Call(op, key, value, err, has, first, second) ==
    [op |-> op, key |-> key, value |-> value, err |-> err,
     has |-> has, first |-> first, second |-> second]

(* ------------------------------ helpers -------------------------------- *)

\* The C string a char array holds: the characters before the first NUL.
RECURSIVE c_str(_)
c_str(s) ==
    IF s = <<>> \/ Head(s) = 0 THEN <<>> ELSE <<Head(s)>> \o c_str(Tail(s))

\* hash_function_(key) % size_
bucket(key) == hash_function_[key] % size_

\* The loop of findKey from index i with cnt slots already visited.
RECURSIVE findKeyLoop(_, _, _, _)

\* Mutant of findKeyLoop: a tombstone ends the search like an empty slot.
findKeyLoop_stopsAtTombstone(buf, key, i, cnt) ==
    IF cnt = size_ THEN nullopt
    ELSE IF buf[i].occupied = FALSE THEN nullopt
    ELSE IF buf[i].occupied /\ c_str(buf[i].key) = key THEN i
    ELSE findKeyLoop(buf, key, (i + 1) % size_, cnt + 1)

findKeyLoop(buf, key, i, cnt) ==
    IF cnt = size_ THEN nullopt
    ELSE IF buf[i].occupied = FALSE /\ buf[i].tombstone = FALSE THEN nullopt
    ELSE IF buf[i].occupied /\ c_str(buf[i].key) = key THEN i
    ELSE findKeyLoop(buf, key, (i + 1) % size_, cnt + 1)

findKey(buf, key) == findKeyLoop(buf, key, bucket(key), 0)

\* The loop of findFirstEmptyOrTombstone.
RECURSIVE findFreeLoop(_, _, _)

\* Mutant of findFreeLoop: the scan ends at the last index instead of wrapping.
findFreeLoop_noWrap(buf, i, cnt) ==
    IF cnt = size_ THEN nullopt
    ELSE IF buf[i].occupied = FALSE \/ buf[i].tombstone THEN i
    ELSE IF i + 1 = size_ THEN nullopt
    ELSE findFreeLoop(buf, i + 1, cnt + 1)

findFreeLoop(buf, i, cnt) ==
    IF cnt = size_ THEN nullopt
    ELSE IF buf[i].occupied = FALSE \/ buf[i].tombstone THEN i
    ELSE findFreeLoop(buf, (i + 1) % size_, cnt + 1)

\* Mutant of findFirstEmptyOrTombstone: a full table yields the hash bucket.
findFirstEmptyOrTombstone_evicts(buf, key) ==
    IF findFreeLoop(buf, bucket(key), 0) = nullopt
    THEN bucket(key)
    ELSE findFreeLoop(buf, bucket(key), 0)

findFirstEmptyOrTombstone(buf, key) == findFreeLoop(buf, bucket(key), 0)

\* get(key) on a buffer: the value, or nullopt.
get(buf, key) ==
    IF findKey(buf, key) # nullopt THEN buf[findKey(buf, key)].value ELSE nullopt

has_value(buf, key) == findKey(buf, key) # nullopt

(* ------------------------------- Init ---------------------------------- *)

Init ==
    /\ buffer_ = [i \in 0..(size_ - 1) |-> Entry0]
    /\ inserts_ = <<>>
    /\ hash_function_ \in HashFunctions
    /\ last = Call("new", <<>>, 0, "none", FALSE, <<>>, 0)
    /\ order = <<>>
    /\ seen = {}
    /\ twin = <<>>
    /\ discards = 0
    /\ ub = FALSE

(* ------------------------------ insert --------------------------------- *)

\* buffer_[*idx] = { .occupied = true, .value = value }: the key field is zeroed.
newEntry(value) ==
    [key |-> <<>>, tombstone |-> FALSE, occupied |-> TRUE, value |-> value]

\* What strcpy(buffer_[idx].key, key.c_str()) can leave in the Entries of buf.
\* A key of at most kMaxWordLength characters fits the key field with its NUL.
\* A longer one is written past the field: over tombstone, occupied and value of
\* the same Entry and, from there, over the Entry that follows (or past the
\* end of the vector's allocation). That is undefined behaviour: every content
\* of the overrun fields is a possible outcome.
strcpy(buf, idx, key) ==
    IF Len(c_str(key)) <= kMaxWordLength
    THEN {[buf EXCEPT ![idx].key = c_str(key)]}
    ELSE {[i \in DOMAIN buf |->
              IF i = idx THEN [key |-> k, tombstone |-> t, occupied |-> o, value |-> v]
              ELSE IF i = idx + 1 THEN n
              ELSE buf[i]] :
            k \in {SubSeq(c_str(key), 1, kMaxWordLength + 1)},
            t \in BOOLEAN, o \in BOOLEAN, v \in {buf[idx].value, 0},
            n \in (IF idx + 1 \in DOMAIN buf THEN {buf[idx + 1], Entry0} ELSE {Entry0})}

\* Mutant of updateValue: the value of an existing key is not written.
updateValue_skipped(buf, key_idx, value) == buf

\* buffer_[*key_idx].value = value
updateValue(buf, key_idx, value) == [buf EXCEPT ![key_idx].value = value]

\* Mutant of push_back: the key is not recorded.
push_back_skipped(log, key) == log

\* inserts_.push_back(key)
push_back(log, key) == Append(log, key)

\* History: key becomes the most recently inserted live key, with this value.
recordInsert(ord, key, value) ==
    SelectSeq(ord, LAMBDA e : e.key # key) \o <<[key |-> key, value |-> value]>>

\* History: key is no longer live.
recordRemove(ord, key) == SelectSeq(ord, LAMBDA e : e.key # key)

insert(key, value) ==
    /\ ~ub
    /\ Len(inserts_) < MaxLog
    /\ LET key_idx == findKey(buffer_, key)
           idx == findFirstEmptyOrTombstone(buffer_, key)
       IN IF key_idx # nullopt
          THEN /\ buffer_' = updateValue(buffer_, key_idx, value)
               /\ inserts_' = push_back(inserts_, key)
               /\ order' = recordInsert(order, key, value)
               /\ last' = Call("insert", key, value, "none", FALSE, <<>>, 0)
               /\ ub' = FALSE
          ELSE IF idx = nullopt
          THEN /\ last' = Call("insert", key, value, "overflow_error", FALSE, <<>>, 0)
               /\ UNCHANGED <<buffer_, inserts_, order, ub>>
          ELSE /\ buffer_' \in strcpy([buffer_ EXCEPT ![idx] = newEntry(value)], idx, key)
               /\ inserts_' = push_back(inserts_, key)
               /\ order' = recordInsert(order, key, value)
               /\ last' = Call("insert", key, value, "none", FALSE, <<>>, 0)
               /\ ub' = (Len(c_str(key)) > kMaxWordLength)
    /\ UNCHANGED hash_function_

(* -------------------------------- get ---------------------------------- *)

Get(key) ==
    /\ ~ub
    /\ last' = Call("get", key, 0, "none", has_value(buffer_, key), <<>>,
                    IF has_value(buffer_, key) THEN get(buffer_, key) ELSE 0)
    /\ UNCHANGED <<buffer_, inserts_, hash_function_, order, seen, twin, discards, ub>>

(* ------------------------------- remove -------------------------------- *)

\* Mutant of tombstoned: the slot is marked free instead of tombstoned.
tombstoned_asEmpty(e) ==
    [e EXCEPT !.tombstone = FALSE, !.occupied = FALSE,
              !.key = IF e.key = <<>> THEN <<>> ELSE <<0>> \o Tail(e.key)]

\* Mutant of tombstoned: only the tombstone flag is set.
tombstoned_flagOnly(e) == [e EXCEPT !.tombstone = TRUE]

\* tombstone = true; occupied = false; key[0] = '\0'. The value is left as it is.
tombstoned(e) ==
    [e EXCEPT !.tombstone = TRUE, !.occupied = FALSE,
              !.key = IF e.key = <<>> THEN <<>> ELSE <<0>> \o Tail(e.key)]

\* Mutant of removeFrom: without the "if (key_idx)" test, the hash bucket is
\* tombstoned when the key is not found.
removeFrom_unchecked(buf, key) ==
    LET i == IF findKey(buf, key) # nullopt THEN findKey(buf, key) ELSE bucket(key)
    IN [buf EXCEPT ![i] = [@ EXCEPT !.tombstone = TRUE, !.occupied = FALSE, !.key = <<>>]]

removeFrom(buf, key) ==
    IF findKey(buf, key) # nullopt
    THEN [buf EXCEPT ![findKey(buf, key)] = tombstoned(buf[findKey(buf, key)])]
    ELSE buf

remove(key) ==
    /\ ~ub
    /\ buffer_' = removeFrom(buffer_, key)
    /\ order' = recordRemove(order, key)
    /\ last' = Call("remove", key, 0, "none", FALSE, <<>>, 0)
    /\ UNCHANGED <<inserts_, hash_function_, seen, twin, discards, ub>>

(* ------------------------- get_first / get_last ------------------------ *)

\* The while loop of get_first: pop_front while the front key has no value.
RECURSIVE dropFront(_, _)
dropFront(log, buf) ==
    IF log = <<>> THEN <<>>
    ELSE IF has_value(buf, Head(log)) THEN log
    ELSE dropFront(Tail(log), buf)

\* The while loop of get_last: pop_back while the back key has no value.
RECURSIVE dropBack(_, _)
dropBack(log, buf) ==
    IF log = <<>> THEN <<>>
    ELSE IF has_value(buf, log[Len(log)]) THEN log
    ELSE dropBack(SubSeq(log, 1, Len(log) - 1), buf)

\* The pair<string_view, int> returned is converted from the temporary
\* pair<string, int> of make_pair(key, *value): its string_view points into a
\* string destroyed when the return statement ends. What the caller reads
\* through it is the key if the bytes are still there, anything otherwise.
dangling(key) == {key} \cup Views

peek_front ==
    /\ ~ub
    /\ inserts_' = dropFront(inserts_, buffer_)
    /\ IF inserts_' = <<>>
       THEN last' = Call("get_first", <<>>, 0, "invalid_argument", FALSE, <<>>, 0)
       ELSE \E view \in dangling(Head(inserts_')) :
              last' = Call("get_first", Head(inserts_'), 0, "none", TRUE, view,
                           get(buffer_, Head(inserts_')))
    /\ UNCHANGED <<buffer_, hash_function_, order, seen, twin, ub>>

get_first == peek_front /\ UNCHANGED discards

peek_back ==
    /\ ~ub
    /\ inserts_' = dropBack(inserts_, buffer_)
    /\ IF inserts_' = <<>>
       THEN last' = Call("get_last", <<>>, 0, "invalid_argument", FALSE, <<>>, 0)
       ELSE \E view \in dangling(inserts_'[Len(inserts_')]) :
              last' = Call("get_last", inserts_'[Len(inserts_')], 0, "none", TRUE, view,
                           get(buffer_, inserts_'[Len(inserts_')]))
    /\ UNCHANGED <<buffer_, hash_function_, order, seen, twin, ub>>

get_last == peek_back /\ UNCHANGED discards

(* --------------------------- specifications ---------------------------- *)

Insert ==
    \E key \in Keys, value \in Values : insert(key, value) /\ UNCHANGED <<seen, twin, discards>>

InsertLong ==
    \E key \in LongKeys, value \in Values :
        insert(key, value) /\ UNCHANGED <<seen, twin, discards>>

GetKey == \E key \in Keys : Get(key)

Remove == \E key \in Keys : remove(key)

Next == Insert \/ GetKey \/ Remove \/ get_first \/ get_last

\* Callers that keep to the key domain.
Spec == Init /\ [][Next]_vars

\* insert of a key no insert has succeeded for yet.
InsertOnce ==
    \E key \in Keys \ seen, value \in Values :
        /\ insert(key, value)
        /\ seen' = IF last'.err = "none" THEN seen \cup {key} ELSE seen
        /\ UNCHANGED <<twin, discards>>

NextOnce == InsertOnce \/ GetKey \/ Remove \/ get_first \/ get_last

\* Callers that insert every key at most once.
SpecOnce == Init /\ [][NextOnce]_vars

\* The number of pop_front calls of get_first: the entries at the front of the
\* log whose key has no value.
RECURSIVE staleFront(_, _)
staleFront(log, buf) ==
    IF log = <<>> \/ has_value(buf, Head(log)) THEN 0
    ELSE 1 + staleFront(Tail(log), buf)

\* The number of pop_back calls of get_last.
RECURSIVE staleBack(_, _)
staleBack(log, buf) ==
    IF log = <<>> \/ has_value(buf, log[Len(log)]) THEN 0
    ELSE 1 + staleBack(SubSeq(log, 1, Len(log) - 1), buf)

\* insert, its key recorded when it succeeds.
InsertHist ==
    \E key \in Keys, value \in Values :
        /\ Len(twin) < MaxPushes
        /\ insert(key, value)
        /\ twin' = IF last'.err = "none" THEN Append(twin, key) ELSE twin
        /\ UNCHANGED <<seen, discards>>

\* get_first, its pop_front calls counted.
GetFirstHist == peek_front /\ discards' = discards + staleFront(inserts_, buffer_)

\* get_last, its pop_back calls counted.
GetLastHist == peek_back /\ discards' = discards + staleBack(inserts_, buffer_)

NextHist == InsertHist \/ GetKey \/ Remove \/ GetFirstHist \/ GetLastHist

\* Callers whose successful inserts and whose discarded log entries are recorded.
SpecHist == Init /\ [][NextHist]_vars

NextLong == Next \/ InsertLong

\* Callers that also hand insert keys longer than kMaxWordLength.
SpecLong == Init /\ [][NextLong]_vars

(* ------------------------------ claims --------------------------------- *)

\* The live keys by their latest successful insert, oldest first.
LiveOrder == SelectSeq(order, LAMBDA e : has_value(buffer_, e.key))

AllOccupied(buf) == \A i \in DOMAIN buf : buf[i].occupied

NonePresent(buf) == \A k \in Keys : ~has_value(buf, k)

\* C1: after a successful insert(k, v), get(k) returns v.
C1_InsertThenGet ==
    (last.op = "insert" /\ last.err = "none") => get(buffer_, last.key) = last.value

\* A successful insert whose key sits past its hash bucket while a tombstone is in the table.
C1_Witness ==
    /\ last.op = "insert" /\ last.err = "none"
    /\ findKey(buffer_, last.key) # bucket(last.key)
    /\ \E i \in DOMAIN buffer_ : buffer_[i].tombstone

\* C2: a successful get_first() answers with the present key whose latest
\* successful insert is the earliest, and with that key's current value. The
\* key is taken as the string get_first looked up (last.key), before it is
\* handed back as a string_view.
C2_FirstIsOldest ==
    (last.op = "get_first" /\ last.err = "none") =>
        /\ LiveOrder # <<>>
        /\ last.key = LiveOrder[1].key
        /\ last.second = get(buffer_, LiveOrder[1].key)

\* C3: a successful get_last() returns (k, get(k)) for the present key k whose
\* latest successful insert is the latest.
C3_LastIsNewest ==
    (last.op = "get_last" /\ last.err = "none") =>
        /\ LiveOrder # <<>>
        /\ last.first = LiveOrder[Len(LiveOrder)].key
        /\ last.second = get(buffer_, LiveOrder[Len(LiveOrder)].key)

\* C4: when every key is inserted at most once, get_first() returns the
\* earliest-inserted key not removed and get_last() the latest-inserted key not
\* removed, each with the value it was inserted with.
C4_FirstLastOnce ==
    /\ (last.op = "get_first" /\ last.err = "none") =>
          /\ LiveOrder # <<>>
          /\ last.first = LiveOrder[1].key
          /\ last.second = LiveOrder[1].value
    /\ (last.op = "get_last" /\ last.err = "none") =>
          /\ LiveOrder # <<>>
          /\ last.first = LiveOrder[Len(LiveOrder)].key
          /\ last.second = LiveOrder[Len(LiveOrder)].value

\* C5: a successful insert(k, v) or a remove(k) leaves get(k') as it was for
\* every other key k'.
C5_OtherKeysUntouched ==
    [][\A k \in Keys :
          (last'.op \in {"insert", "remove"} /\ last'.key # k)
              => get(buffer_', k) = get(buffer_, k)]_vars

\* A remove has left a tombstone in the hash bucket of a key that is still found past it.
C5_Witness ==
    /\ last.op = "remove"
    /\ \E k \in Keys :
          /\ has_value(buffer_, k)
          /\ buffer_[bucket(k)].tombstone
          /\ bucket(k) = bucket(last.key)

\* C6: after remove(k), get(k) is not found, and a key that is not found stays
\* not found until an insert of that key succeeds.
C6_RemovedStaysAbsent ==
    /\ [](last.op = "remove" => ~has_value(buffer_, last.key))
    /\ [][\A k \in Keys :
            (~has_value(buffer_, k) /\ has_value(buffer_', k))
                => (last'.op = "insert" /\ last'.key = k /\ last'.err = "none")]_vars

\* A key that was inserted has been removed, and other keys are still present.
C6_Witness ==
    /\ last.op = "remove"
    /\ \E i \in DOMAIN inserts_ : inserts_[i] = last.key
    /\ ~has_value(buffer_, last.key)
    /\ ~NonePresent(buffer_)

\* C7: remove(k) of a key that is not present changes no slot and not the log.
C7_RemoveAbsentNoOp ==
    [][(last'.op = "remove" /\ ~has_value(buffer_, last'.key))
          => (buffer_' = buffer_ /\ inserts_' = inserts_)]_vars

\* A remove of a key that was removed before (no tombstone is left, so this
\* remove changed nothing), the table holding other keys.
C7_Witness ==
    /\ last.op = "remove"
    /\ \E i \in DOMAIN inserts_ : inserts_[i] = last.key
    /\ \A i \in DOMAIN buffer_ : ~buffer_[i].tombstone
    /\ \E i \in DOMAIN buffer_ : buffer_[i].occupied

\* C8: with every slot Occupied, insert of a key that is not present fails with
\* the capacity error and changes no slot, not the log, and no key's value.
C8_FullInsertFails ==
    [][(last'.op = "insert" /\ AllOccupied(buffer_) /\ ~has_value(buffer_, last'.key))
          => /\ last'.err = "overflow_error"
             /\ buffer_' = buffer_
             /\ inserts_' = inserts_
             /\ \A k \in Keys : get(buffer_', k) = get(buffer_, k)]_vars

\* An insert has failed on a table whose slots are all Occupied.
C8_Witness ==
    /\ last.op = "insert" /\ last.err = "overflow_error"
    /\ AllOccupied(buffer_)
    /\ ~has_value(buffer_, last.key)

\* C9: get_first() and get_last() fail with the empty-container error exactly
\* when no key is present, and return a pair otherwise.
C9_EmptyIffNonePresent ==
    last.op \in {"get_first", "get_last"} =>
        /\ last.err = "invalid_argument" <=> NonePresent(buffer_)
        /\ last.err = "none" <=> (last.has /\ has_value(buffer_, last.key))

\* get_first has returned a pair after log entries were discarded: a key was
\* inserted and removed, another is present, and one log entry is left.
C9_Witness ==
    /\ last.op = "get_first" /\ last.err = "none"
    /\ \E i \in DOMAIN buffer_ : buffer_[i].tombstone
    /\ Len(inserts_) = 1

\* C10: insert of a key longer than kMaxWordLength is rejected with KeyTooLong
\* and changes no slot and not the log.
C10_KeyTooLongRejected ==
    [][(last'.op = "insert" /\ Len(last'.key) > kMaxWordLength)
          => (last'.err = "KeyTooLong" /\ buffer_' = buffer_ /\ inserts_' = inserts_)]_vars

\* The number of Occupied slots.
occupancy(buf) == Cardinality({i \in DOMAIN buf : buf[i].occupied})

\* The slots that are Occupied by key, whatever the probe sequence finds.
slotsOf(buf, key) == {i \in DOMAIN buf : buf[i].occupied /\ c_str(buf[i].key) = key}

\* C11: insert(k, v) of a key that is present writes v into k's slot and nothing
\* else: the number of Occupied slots and the index of k's slot stay the same,
\* every other slot and every other field of k's slot are unchanged, and get(k)
\* returns v; also with a tombstone before k's slot on its probe sequence.
C11_UpdateInPlace ==
    [][(last'.op = "insert" /\ slotsOf(buffer_, last'.key) # {}) =>
          /\ last'.err = "none"
          /\ occupancy(buffer_') = occupancy(buffer_)
          /\ slotsOf(buffer_', last'.key) = slotsOf(buffer_, last'.key)
          /\ \E i \in slotsOf(buffer_, last'.key) :
                buffer_' = [buffer_ EXCEPT ![i].value = last'.value]
          /\ get(buffer_', last'.key) = last'.value]_vars

\* An insert has succeeded for a key that sits past its hash bucket, and the
\* bucket is a tombstone: a new key would have gone there, so it was an update.
C11_Witness ==
    /\ last.op = "insert" /\ last.err = "none"
    /\ buffer_[bucket(last.key)].tombstone
    /\ findKey(buffer_, last.key) \notin {nullopt, bucket(last.key)}

\* C12: the log length is the number of successful inserts minus the number of
\* log entries get_first / get_last have discarded, so the discards never
\* exceed the successful inserts; a failed insert, get and remove leave the
\* log length as it is.
C12_LogAccounting ==
    /\ [](Len(inserts_) = Len(twin) - discards /\ discards <= Len(twin))
    /\ [][(last'.op \in {"get", "remove"} \/ (last'.op = "insert" /\ last'.err # "none"))
             => Len(inserts_') = Len(inserts_)]_vars

\* get_last has answered after at least two entries were discarded, one being left.
C12_Witness ==
    /\ discards >= 2
    /\ Len(inserts_) = 1
    /\ last.op = "get_last" /\ last.err = "none"

\* C13: no two Occupied slots hold the same key.
C13_OneSlotPerKey ==
    \A i, j \in DOMAIN buffer_ :
        (i # j /\ buffer_[i].occupied /\ buffer_[j].occupied)
            => c_str(buffer_[i].key) # c_str(buffer_[j].key)

\* A key that is present has been inserted twice (the log names it twice) while a
\* tombstone is in the table.
C13_Witness ==
    \E k \in Keys :
        /\ has_value(buffer_, k)
        /\ \E i \in DOMAIN buffer_ : buffer_[i].tombstone
        /\ \E i, j \in DOMAIN inserts_ : i < j /\ inserts_[i] = k /\ inserts_[j] = k

\* A slot that is neither Occupied nor a tombstone.
isEmpty(e) == e.occupied = FALSE /\ e.tombstone = FALSE

\* The number of slots the probe sequence of key visits before index j.
probeDistance(key, j) == (j - bucket(key)) % size_

\* C14: no slot on the cyclic probe path from a key's hash bucket up to (but
\* excluding) the Occupied slot that holds it is Empty, so get finds every key
\* that an Occupied slot holds.
C14_NoEmptyBeforeKey ==
    /\ \A j \in DOMAIN buffer_ :
          buffer_[j].occupied =>
             \A d \in 0..(probeDistance(c_str(buffer_[j].key), j) - 1) :
                ~isEmpty(buffer_[(bucket(c_str(buffer_[j].key)) + d) % size_])
    /\ \A k \in Keys : slotsOf(buffer_, k) # {} => findKey(buffer_, k) \in slotsOf(buffer_, k)

\* A key is held by a slot past its hash bucket, and the bucket is a tombstone.
C14_Witness ==
    \E j \in DOMAIN buffer_ :
        /\ buffer_[j].occupied
        /\ probeDistance(c_str(buffer_[j].key), j) > 0
        /\ buffer_[bucket(c_str(buffer_[j].key))].tombstone

\* The state of a slot by its two flags.
slotState(e) ==
    IF e.occupied /\ e.tombstone THEN "Both"
    ELSE IF e.occupied THEN "Occupied"
    ELSE IF e.tombstone THEN "Tombstone"
    ELSE "Empty"

\* C15: no slot has both flags set, and a slot only goes from Empty to Occupied
\* (insert), from Occupied to Tombstone (remove) and from Tombstone to Occupied
\* (insert); it never becomes Empty again.
C15_SlotStateMachine ==
    /\ [](\A i \in DOMAIN buffer_ : slotState(buffer_[i]) # "Both")
    /\ [][\A i \in DOMAIN buffer_ :
            \/ slotState(buffer_'[i]) = slotState(buffer_[i])
            \/ /\ slotState(buffer_[i]) \in {"Empty", "Tombstone"}
               /\ slotState(buffer_'[i]) = "Occupied"
               /\ last'.op = "insert"
            \/ /\ slotState(buffer_[i]) = "Occupied"
               /\ slotState(buffer_'[i]) = "Tombstone"
               /\ last'.op = "remove"]_vars

\* An insert has reused a tombstone: the log names a key that was removed, and
\* no tombstone is left in the table.
C15_Witness ==
    /\ last.op = "insert" /\ last.err = "none"
    /\ \E i \in DOMAIN inserts_ : ~has_value(buffer_, inserts_[i])
    /\ \A i \in DOMAIN buffer_ : ~buffer_[i].tombstone

\* The slots that are Empty or Tombstone.
freeSlots(buf) == {i \in DOMAIN buf : slotState(buf[i]) \in {"Empty", "Tombstone"}}

\* The first of them in probe order from the hash bucket of key.
firstFree(buf, key) ==
    CHOOSE i \in freeSlots(buf) :
        \A j \in freeSlots(buf) : probeDistance(key, i) <= probeDistance(key, j)

\* C16: insert(k, v) of a key that is not present succeeds whenever some slot is
\* Empty or Tombstone and writes (k, v), Occupied, into the first such slot in
\* probe order from the hash bucket, leaving the other slots alone; it fails
\* with the capacity error only when every slot is Occupied.
C16_InsertFirstFree ==
    [][(last'.op = "insert" /\ slotsOf(buffer_, last'.key) = {}) =>
          IF freeSlots(buffer_) # {}
          THEN /\ last'.err = "none"
               /\ buffer_' = [buffer_ EXCEPT ![firstFree(buffer_, last'.key)] =
                                 [key |-> last'.key, tombstone |-> FALSE,
                                  occupied |-> TRUE, value |-> last'.value]]
          ELSE /\ last'.err = "overflow_error"
               /\ AllOccupied(buffer_)
               /\ buffer_' = buffer_]_vars

\* A new key (the log names it once) has been written before its hash bucket:
\* the scan for a free slot wrapped around.
C16_Witness ==
    /\ last.op = "insert" /\ last.err = "none"
    /\ Cardinality({i \in DOMAIN inserts_ : inserts_[i] = last.key}) = 1
    /\ findKey(buffer_, last.key) # nullopt
    /\ findKey(buffer_, last.key) < bucket(last.key)

\* C17: a successful get_first() (get_last()) changes no slot and leaves the log
\* entry it answered from at the front (back); the same call made again at once
\* returns the same (key, value) and changes neither the table nor the log.
C17_IdempotentPeek ==
    [][/\ (last'.op = "get_first" /\ last'.err = "none")
            => (buffer_' = buffer_ /\ inserts_' # <<>> /\ Head(inserts_') = last'.key)
       /\ (last'.op = "get_last" /\ last'.err = "none")
            => (buffer_' = buffer_ /\ inserts_' # <<>> /\ inserts_'[Len(inserts_')] = last'.key)
       /\ (last.op \in {"get_first", "get_last"} /\ last.err = "none" /\ last'.op = last.op)
            => /\ last'.first = last.first
               /\ last'.second = last.second
               /\ buffer_' = buffer_
               /\ inserts_' = inserts_]_vars

\* C18: remove(k) of a key that is present changes exactly one slot, the one that
\* holds k: it becomes a Tombstone, not Occupied, its stored key the empty
\* string; every other slot and the log are unchanged.
C18_RemoveOneSlot ==
    [][(last'.op = "remove" /\ slotsOf(buffer_, last'.key) # {}) =>
          /\ \E i \in slotsOf(buffer_, last'.key) :
                /\ buffer_'[i].tombstone /\ ~buffer_'[i].occupied
                /\ c_str(buffer_'[i].key) = <<>>
                /\ \A j \in DOMAIN buffer_ : j # i => buffer_'[j] = buffer_[j]
          /\ inserts_' = inserts_]_vars

\* A remove has left a tombstone that still carries the tail of the removed key
\* behind the NUL, beside an Occupied slot, with the key still in the log.
C18_Witness ==
    /\ last.op = "remove"
    /\ \E i \in DOMAIN buffer_ :
          /\ slotState(buffer_[i]) = "Tombstone"
          /\ buffer_[i].key = <<0>> \o Tail(last.key)
    /\ \E i \in DOMAIN buffer_ : buffer_[i].occupied
    /\ \E i \in DOMAIN inserts_ : inserts_[i] = last.key

\* What get_first answers on a map with this log and these slots: the key it
\* looks up and its value, or the empty-container error.
firstOf(log, buf) ==
    IF dropFront(log, buf) = <<>> THEN [err |-> "invalid_argument", key |-> <<>>, value |-> 0]
    ELSE [err |-> "none", key |-> Head(dropFront(log, buf)),
          value |-> get(buf, Head(dropFront(log, buf)))]

\* What get_last answers on a map with this log and these slots.
lastOf(log, buf) ==
    IF dropBack(log, buf) = <<>> THEN [err |-> "invalid_argument", key |-> <<>>, value |-> 0]
    ELSE [err |-> "none", key |-> dropBack(log, buf)[Len(dropBack(log, buf))],
          value |-> get(buf, dropBack(log, buf)[Len(dropBack(log, buf))])]

\* C19: a map that received get_first / get_last calls between its inserts and
\* removes answers get_first and get_last as the map that received the same
\* inserts and removes and no such call: that map has the same slots, and twin
\* as its log.
C19_CleanupNotObservable ==
    /\ firstOf(inserts_, buffer_) = firstOf(twin, buffer_)
    /\ lastOf(inserts_, buffer_) = lastOf(twin, buffer_)

RECURSIVE findKeyTrace(_, _, _, _)

\* Mutant of findKeyTrace: the index is not advanced.
findKeyTrace_stuck(buf, key, i, cnt) ==
    IF cnt = size_ THEN <<>>
    ELSE IF ~buf[i].occupied /\ ~buf[i].tombstone THEN <<i>>
    ELSE IF buf[i].occupied /\ c_str(buf[i].key) = key THEN <<i>>
    ELSE <<i>> \o findKeyTrace(buf, key, i, cnt + 1)

\* The slots the loop of findKey reads, in the order it reads them.
findKeyTrace(buf, key, i, cnt) ==
    IF cnt = size_ THEN <<>>
    ELSE IF ~buf[i].occupied /\ ~buf[i].tombstone THEN <<i>>
    ELSE IF buf[i].occupied /\ c_str(buf[i].key) = key THEN <<i>>
    ELSE <<i>> \o findKeyTrace(buf, key, (i + 1) % size_, cnt + 1)

examined(buf, key) == findKeyTrace(buf, key, bucket(key), 0)

\* C20: when no slot is empty and no occupied slot holds the key, the probe of
\* get and remove reads every slot exactly once, from the key's bucket onwards
\* and wrapping from the last index to 0, then get answers not found and
\* remove changes nothing.
C20_ProbeTerminates ==
    \A k \in Keys :
        ((\A i \in DOMAIN buffer_ : ~isEmpty(buffer_[i])) /\ slotsOf(buffer_, k) = {}) =>
            /\ Len(examined(buffer_, k)) = size_
            /\ \A m, n \in 1..Len(examined(buffer_, k)) :
                  m # n => examined(buffer_, k)[m] # examined(buffer_, k)[n]
            /\ examined(buffer_, k)[1] = bucket(k)
            /\ \A m \in 1..(Len(examined(buffer_, k)) - 1) :
                  examined(buffer_, k)[m + 1] = (examined(buffer_, k)[m] + 1) % size_
            /\ findKey(buffer_, k) = nullopt
            /\ get(buffer_, k) = nullopt
            /\ removeFrom(buffer_, k) = buffer_

\* A get of an absent key has just answered not found on a table with no empty
\* slot, a tombstone among them, its probe starting at the last index.
C20_Witness ==
    /\ last.op = "get" /\ ~last.has
    /\ \A i \in DOMAIN buffer_ : ~isEmpty(buffer_[i])
    /\ \E i \in DOMAIN buffer_ : buffer_[i].tombstone
    /\ bucket(last.key) = size_ - 1
    /\ slotsOf(buffer_, last.key) = {}

====
